---- MODULE Spec2Model ----
(***************************************************************************)
(* Model of composite_demo/tool_registry.py: a process-wide registry of    *)
(* named tools (register_tool), a dispatcher that calls a tool by name and *)
(* turns every outcome into a string (dispatch_tool), and a catalog        *)
(* exporter that hands out deep copies of the descriptors (get_tools).     *)
(*                                                                         *)
(* Python values are tagged records; mutable Python objects (the           *)
(* descriptor dict, each tool_def dict, each params list, each parameter   *)
(* dict) live in a heap so that aliasing between the registry and what a   *)
(* caller holds is visible.                                                *)
(***************************************************************************)
EXTENDS Integers, Sequences, FiniteSets, TLC

VARIABLES _TOOL_HOOKS, heap, snaps, last, nreg, nmut, returned, pending

vars == <<_TOOL_HOOKS, heap, snaps, last, nreg, nmut, returned, pending>>

(* ---------------------------- bounds ----------------------------------- *)
MaxRegs == 2
MaxSnaps == 1
MaxMuts == 1

(* ------------------------- Python values ------------------------------- *)
IntV(i) == [t |-> "int", i |-> i, s |-> "", b |-> FALSE]
StrV(s) == [t |-> "str", i |-> 0, s |-> s, b |-> FALSE]
BoolV(b) == [t |-> "bool", i |-> 0, s |-> "", b |-> b]
NoneV == [t |-> "none", i |-> 0, s |-> "", b |-> FALSE]
\* an instance of a class whose __str__ raises
ObjV == [t |-> "obj", i |-> 0, s |-> "", b |-> FALSE]

\* str(ret) of line 56: defined for the builtin types, raises for ObjV
str_raises(v) == v.t = "obj"

str(v) ==
  CASE v.t = "int" -> ToString(v.i)
    [] v.t = "str" -> v.s
    [] v.t = "bool" -> (IF v.b THEN "True" ELSE "False")
    [] v.t = "none" -> "None"
    [] OTHER -> ""

\* repr(ret): differs from str on strings
repr(v) == IF v.t = "str" THEN "'" \o v.s \o "'" ELSE str(v)

(* --------------------- documentation text ------------------------------ *)
\* A docstring is None or a one-line text, kept as a sequence of characters
\* so that trimming is computed.
NoDoc == [present |-> FALSE, text |-> <<>>]
Doc(chars) == [present |-> TRUE, text |-> chars]

IsSpace(c) == c = " "

RECURSIVE lstrip(_)
lstrip(s) == IF s # <<>> /\ IsSpace(Head(s)) THEN lstrip(Tail(s)) ELSE s

RECURSIVE rstrip(_)
rstrip(s) ==
  IF s # <<>> /\ IsSpace(s[Len(s)]) THEN rstrip(SubSeq(s, 1, Len(s) - 1)) ELSE s

strip(s) == rstrip(lstrip(s))

\* inspect.getdoc: None when there is no docstring, else cleandoc(doc), which
\* for a one-line text removes the leading whitespace.
getdoc(func) == IF func.doc.present THEN Doc(lstrip(func.doc.text)) ELSE NoDoc

(* ------------------- declared types and annotations -------------------- *)
\* generic: isinstance(typ, GenericAlias); hasname: typ has __name__
T_int == [generic |-> FALSE, hasname |-> TRUE, name |-> "int", repr |-> "<class 'int'>"]
T_str == [generic |-> FALSE, hasname |-> TRUE, name |-> "str", repr |-> "<class 'str'>"]
T_tuple == [generic |-> TRUE, hasname |-> TRUE, name |-> "tuple", repr |-> "tuple[int, int]"]
T_fwd == [generic |-> FALSE, hasname |-> FALSE, name |-> "", repr |-> "ForwardRef('int')"]

\* inspect.Parameter.empty
Empty == [kind |-> "empty", origin |-> T_int, metadata |-> <<>>]
\* a bare type used as annotation: get_origin(annotation) is not Annotated
Plain(typ) == [kind |-> "plain", origin |-> typ, metadata |-> <<>>]
\* typing.Annotated[typ, *metadata]
Annotated(typ, metadata) == [kind |-> "Annotated", origin |-> typ, metadata |-> metadata]

P(name, annotation) == [name |-> name, annotation |-> annotation]

(* ----------------------- the callables --------------------------------- *)
Names == {"f", "g"}

F(id, name, doc, params, body) ==
  [id |-> id, name |-> name, doc |-> doc, params |-> params, body |-> body]

\* the callables offered to register_tool; 1..3 are accepted, the others
\* each carry one defect that makes register_tool raise
Funcs ==
  { F(1, "f", Doc(<<" ", "i", "n", "c", " ">>),
        <<P("x", Annotated(T_int, <<StrV("the x"), BoolV(TRUE)>>))>>, "inc"),
    F(2, "f", Doc(<<" ", " ">>),
        <<P("x", Annotated(T_str, <<StrV(""), BoolV(FALSE)>>))>>, "echo"),
    F(3, "g", Doc(<<"o", "b", "j">>),
        <<P("x", Annotated(T_int, <<StrV("seed"), BoolV(TRUE)>>)),
          P("y", Annotated(T_tuple, <<StrV("range"), BoolV(TRUE)>>))>>, "obj"),
    F(4, "f", NoDoc, <<>>, "none"),
    F(5, "f", Doc(<<"u">>),
        <<P("x", Annotated(T_int, <<StrV("ok"), BoolV(TRUE)>>)), P("y", Empty)>>, "none"),
    F(6, "g", Doc(<<"b">>), <<P("x", Plain(T_int))>>, "none"),
    F(7, "f", Doc(<<"m">>),
        <<P("x", Annotated(T_int, <<StrV("only one")>>))>>, "none"),
    F(8, "g", Doc(<<"d">>),
        <<P("x", Annotated(T_int, <<StrV("ok"), BoolV(TRUE)>>)),
          P("y", Annotated(T_int, <<IntV(5), BoolV(TRUE)>>))>>, "none"),
    F(9, "f", Doc(<<"r">>),
        <<P("x", Annotated(T_int, <<StrV("d"), IntV(1)>>))>>, "none"),
    F(10, "g", Doc(<<"n">>),
        <<P("x", Annotated(T_fwd, <<IntV(5), BoolV(TRUE)>>))>>, "none") }

FuncById(id) == CHOOSE f \in Funcs : f.id = id

(* ------------------------------ heap ----------------------------------- *)
\* An address is <<space, key, part, gen>>.  space 0 holds the objects made by
\* register_tool, space k those made for the k-th mapping handed out by
\* get_tools; key is the tool name the object belongs to; part is 0 for the
\* tool_def dict, 1 for its params list, 1 + i for its i-th parameter dict;
\* gen tells apart the objects that successive registrations of one name make.
Addr(space, key, part, gen) == <<space, key, part, gen>>

\* address of the module-level dict _TOOL_DESCRIPTIONS (line 9)
DESCRIPTIONS == Addr(0, "", 0, 0)

Range(f) == {f[x] : x \in DOMAIN f}

Alloc(h, a, obj) == [heap |-> (a :> obj) @@ h, addr |-> a]

\* reference counting: an object no dict or list refers to any more is gone
Collect(h, roots) ==
  LET dicts == roots
      defs == UNION {Range(h[d].items) : d \in dicts}
      lists == {h[t].params : t \in defs}
      params == UNION {Range(h[l].elems) : l \in lists}
  IN [a \in dicts \cup defs \cup lists \cup params |-> h[a]]

DictObj(items) == [kind |-> "dict", items |-> items]
ToolDefObj(name, description, params) ==
  [kind |-> "tool_def", name |-> name, description |-> description, params |-> params]
ListObj(elems) == [kind |-> "list", elems |-> elems]
ParamObj(name, description, type, required) ==
  [kind |-> "param", name |-> name, description |-> description,
   type |-> type, required |-> required]

_TOOL_DESCRIPTIONS == heap[DESCRIPTIONS].items

\* d[k] = v on a dict
SetItem_setdefault(d, k, v) ==
  [x \in DOMAIN d \cup {k} |-> IF x \in DOMAIN d THEN d[x] ELSE v]

SetItem_rebind(d, k, v) == [x \in {k} |-> v]

SetItem(d, k, v) == [x \in DOMAIN d \cup {k} |-> IF x = k THEN v ELSE d[x]]

\* the plain data an object stands for, followed through its references
RECURSIVE Value(_, _)
Value(h, a) ==
  LET o == h[a] IN
  CASE o.kind = "dict" -> [n \in DOMAIN o.items |-> Value(h, o.items[n])]
    [] o.kind = "tool_def" ->
         [name |-> o.name, description |-> o.description, params |-> Value(h, o.params)]
    [] o.kind = "list" -> [i \in 1..Len(o.elems) |-> Value(h, o.elems[i])]
    [] OTHER ->
         [name |-> o.name, description |-> o.description,
          type |-> o.type, required |-> o.required]

(* ---------------------------- Registrar -------------------------------- *)
Ok(v) == [raised |-> FALSE, exc |-> "", value |-> v]
Raise(exc) == [raised |-> TRUE, exc |-> exc, value |-> <<>>]

E_NoDoc == "AttributeError: 'NoneType' object has no attribute 'strip'"
E_Missing == "TypeError: Parameter missing type annotation"
E_NotAnnotated == "TypeError: Annotation type must be typing.Annotated"
E_Unpack == "ValueError: wrong number of values to unpack"
E_NoName == "AttributeError: __name__"
E_Description == "TypeError: Description must be a string"
E_Required == "TypeError: Required must be a bool"

\* one iteration of the loop of register_tool: the parameter dict, or the
\* failure raised for this parameter
param_spec(param) ==
  LET annotation == param.annotation IN
  IF annotation.kind = "empty" THEN Raise(E_Missing)
  ELSE IF annotation.kind # "Annotated" THEN Raise(E_NotAnnotated)
  ELSE IF Len(annotation.metadata) # 2 THEN Raise(E_Unpack)
  ELSE LET typ == annotation.origin
           description == annotation.metadata[1]
           required == annotation.metadata[2]
       IN IF ~typ.generic /\ ~typ.hasname THEN Raise(E_NoName)
          ELSE IF description.t # "str" THEN Raise(E_Description)
          ELSE IF required.t # "bool" THEN Raise(E_Required)
          ELSE Ok([name |-> param.name,
                   description |-> description.s,
                   type |-> IF typ.generic THEN typ.repr ELSE typ.name,
                   required |-> required.b])

\* the loop inserting each parameter dict at the front of the list
RECURSIVE tool_params_of_prepend(_)
tool_params_of_prepend(python_params) ==
  IF python_params = <<>> THEN Ok(<<>>)
  ELSE LET p == param_spec(Head(python_params)) IN
       IF p.raised THEN p
       ELSE LET rest == tool_params_of_prepend(Tail(python_params)) IN
            IF rest.raised THEN rest ELSE Ok(rest.value \o <<p.value>>)

\* the loop over python_params.items(): stops at the first failure
RECURSIVE tool_params_of(_)
tool_params_of(python_params) ==
  IF python_params = <<>> THEN Ok(<<>>)
  ELSE LET p == param_spec(Head(python_params)) IN
       IF p.raised THEN p
       ELSE LET rest == tool_params_of(Tail(python_params)) IN
            IF rest.raised THEN rest ELSE Ok(<<p.value>> \o rest.value)

\* lines 12-40: tool_def, or the failure raised while building it
tool_def_of(func) ==
  LET doc == getdoc(func) IN
  IF ~doc.present THEN Raise(E_NoDoc)
  ELSE LET tool_params == tool_params_of(func.params) IN
       IF tool_params.raised THEN tool_params
       ELSE Ok([name |-> func.name,
                description |-> strip(doc.text),
                params |-> tool_params.value])

\* the objects of a freshly built tool_def placed in the heap: the parameter
\* dicts, the list holding them, and the tool_def dict.  An address is an
\* identity among live objects only: the new objects take the first
\* generation that no object uses which stays alive once the entry of this
\* name is replaced (the dicts of the heap are the registry and the mappings
\* callers hold).
NewToolDef(h, tool_def) ==
  LET n == Len(tool_def.params)
      dicts == {a \in DOMAIN h : h[a].kind = "dict"}
      rest == Collect([h EXCEPT ![DESCRIPTIONS].items =
                         [k \in DOMAIN @ \ {tool_def.name} |-> @[k]]], dicts)
      used == {a[4] : a \in {b \in DOMAIN rest : b[1] = 0 /\ b[2] = tool_def.name}}
      gen == CHOOSE g \in 0..Cardinality(used) :
               g \notin used /\ \A g2 \in 0..(g - 1) : g2 \in used
      at(part) == Addr(0, tool_def.name, part, gen)
      new == [a \in {at(part) : part \in 0..(n + 1)} |->
                IF a[3] = 0 THEN ToolDefObj(tool_def.name, tool_def.description, at(1))
                ELSE IF a[3] = 1 THEN ListObj([i \in 1..n |-> at(i + 1)])
                ELSE LET p == tool_def.params[a[3] - 1]
                     IN ParamObj(p.name, p.description, p.type, p.required)]
  IN [heap |-> new @@ h, addr |-> at(0)]

\* register_tool as a function of the state: what it raises and the two
\* mappings it leaves behind
register_effect_hook_first(hooks, h, func) ==
  LET r == tool_def_of(func) IN
  IF r.raised
    THEN [raised |-> TRUE, exc |-> r.exc,
          hooks |-> SetItem(hooks, func.name, func.id), heap |-> h]
  ELSE LET st == NewToolDef(h, r.value) IN
       [raised |-> FALSE, exc |-> "",
        hooks |-> SetItem(hooks, func.name, func.id),
        heap |-> [st.heap EXCEPT ![DESCRIPTIONS].items =
                    SetItem(@, func.name, st.addr)]]

register_effect(hooks, h, func) ==
  LET r == tool_def_of(func) IN
  IF r.raised
    THEN [raised |-> TRUE, exc |-> r.exc, hooks |-> hooks, heap |-> h]
  ELSE LET st == NewToolDef(h, r.value) IN
       [raised |-> FALSE, exc |-> "",
        hooks |-> SetItem(hooks, func.name, func.id),
        heap |-> [st.heap EXCEPT ![DESCRIPTIONS].items =
                    SetItem(@, func.name, st.addr)]]

(* ---------------------------- Dispatcher ------------------------------- *)
\* the argument mappings offered to dispatch_tool
Arguments ==
  { [k \in {"x"} |-> IntV(5)],
    [k \in {"x"} |-> StrV("a")],
    [k \in {"x", "y"} |-> IntV(5)] }

ToolNames == Names \cup {"nonexistent_tool"}

ParamNames(func) == {func.params[i].name : i \in 1..Len(func.params)}

E_Binding == "TypeError: missing or unexpected keyword argument"
E_Operand == "TypeError: unsupported operand type(s) for +"
E_Invalid == "TypeError: must be a string"
E_Str == "RuntimeError: __str__ failed"

NoArgs == [k \in {} |-> NoneV]

\* tool_call(**tool_params): the keywords are bound to the declared
\* parameters (none has a default), then the body runs.  The bodies: "inc"
\* returns x + 1 and fails inside on a non-number; "echo" checks its input
\* as the tools of this module do (raise TypeError unless isinstance) and
\* returns it; "obj" returns an object whose __str__ raises; the others
\* return None.  args is the keyword mapping the call was made with.
Call(func, tool_params) ==
  LET r == IF DOMAIN tool_params # ParamNames(func) THEN Raise(E_Binding)
           ELSE CASE func.body = "inc" ->
                       (IF tool_params["x"].t = "int"
                          THEN Ok(IntV(tool_params["x"].i + 1))
                          ELSE Raise(E_Operand))
                  [] func.body = "echo" ->
                       (IF tool_params["x"].t = "str"
                          THEN Ok(tool_params["x"])
                          ELSE Raise(E_Invalid))
                  [] func.body = "obj" -> Ok(ObjV)
                  [] OTHER -> Ok(NoneV)
  IN [raised |-> r.raised, exc |-> r.exc, value |-> r.value, args |-> tool_params]

NotCalled == [raised |-> FALSE, exc |-> "", value |-> NoneV, args |-> NoArgs]

\* traceback.format_exc()
format_exc(exc) == "Traceback (most recent call last): " \o exc

\* the message of line 50 (its backquotes around the name are left out)
NotFound(tool_name) == "Tool " \o tool_name \o " not found. Please use a provided tool."

\* callee: the callable that was invoked (0: none)
Outcome(raised, exc, result, invoked, call, callee) ==
  [raised |-> raised, exc |-> exc, result |-> result, invoked |-> invoked,
   call |-> call, callee |-> callee]

\* dispatch_tool without the membership test of line 49
dispatch_effect_no_lookup(hooks, tool_name, tool_params) ==
  IF tool_name \notin DOMAIN hooks
    THEN Outcome(TRUE, "KeyError", "", 0, NotCalled, 0)
  ELSE LET call == Call(FuncById(hooks[tool_name]), tool_params)
           ret == IF call.raised THEN StrV(format_exc(call.exc)) ELSE call.value
       IN IF str_raises(ret) THEN Outcome(TRUE, E_Str, "", 1, call, hooks[tool_name])
          ELSE Outcome(FALSE, "", str(ret), 1, call, hooks[tool_name])

\* dispatch_tool without the try/except of lines 52-55
dispatch_effect_no_except(hooks, tool_name, tool_params) ==
  IF tool_name \notin DOMAIN hooks
    THEN Outcome(FALSE, "", NotFound(tool_name), 0, NotCalled, 0)
  ELSE LET call == Call(FuncById(hooks[tool_name]), tool_params)
       IN IF call.raised THEN Outcome(TRUE, call.exc, "", 1, call, hooks[tool_name])
          ELSE IF str_raises(call.value) THEN Outcome(TRUE, E_Str, "", 1, call, hooks[tool_name])
          ELSE Outcome(FALSE, "", str(call.value), 1, call, hooks[tool_name])

\* dispatch_tool returning repr(ret) instead of str(ret)
dispatch_effect_repr(hooks, tool_name, tool_params) ==
  IF tool_name \notin DOMAIN hooks
    THEN Outcome(FALSE, "", NotFound(tool_name), 0, NotCalled, 0)
  ELSE LET call == Call(FuncById(hooks[tool_name]), tool_params)
           ret == IF call.raised THEN StrV(format_exc(call.exc)) ELSE call.value
       IN IF str_raises(ret) THEN Outcome(TRUE, E_Str, "", 1, call, hooks[tool_name])
          ELSE Outcome(FALSE, "", repr(ret), 1, call, hooks[tool_name])

\* dispatch_tool calling the tool a second time when the first call raised
dispatch_effect_retry(hooks, tool_name, tool_params) ==
  IF tool_name \notin DOMAIN hooks
    THEN Outcome(FALSE, "", NotFound(tool_name), 0, NotCalled, 0)
  ELSE LET first == Call(FuncById(hooks[tool_name]), tool_params)
           call == IF first.raised
                     THEN Call(FuncById(hooks[tool_name]), tool_params)
                     ELSE first
           ret == IF call.raised THEN StrV(format_exc(call.exc)) ELSE call.value
           n == IF first.raised THEN 2 ELSE 1
       IN IF str_raises(ret) THEN Outcome(TRUE, E_Str, "", n, call, hooks[tool_name])
          ELSE Outcome(FALSE, "", str(ret), n, call, hooks[tool_name])

\* dispatch_tool as a function of the hooks: whether it raises to its
\* caller, the string it returns, how often it called the tool, and what the
\* tool did
dispatch_effect(hooks, tool_name, tool_params) ==
  IF tool_name \notin DOMAIN hooks
    THEN Outcome(FALSE, "", NotFound(tool_name), 0, NotCalled, 0)
  ELSE LET tool_call == FuncById(hooks[tool_name])
           call == Call(tool_call, tool_params)
           ret == IF call.raised THEN StrV(format_exc(call.exc)) ELSE call.value
       IN IF str_raises(ret) THEN Outcome(TRUE, E_Str, "", 1, call, hooks[tool_name])
          ELSE Outcome(FALSE, "", str(ret), 1, call, hooks[tool_name])

(* ------------------------- Catalog Exporter ---------------------------- *)
RECURSIVE SetToSeq(_)
SetToSeq(S) ==
  IF S = {} THEN <<>> ELSE LET x == CHOOSE y \in S : TRUE IN <<x>> \o SetToSeq(S \ {x})

IndexOf(seq, x) == CHOOSE i \in 1..Len(seq) : seq[i] = x

\* copy.copy: a new outer object holding the same references
deepcopy_shallow(h, a, space) == Alloc(h, [a EXCEPT ![1] = space], h[a])

\* no copy at all: the caller gets the object itself
deepcopy_alias(h, a, space) == [heap |-> h, addr |-> a]

\* copy.deepcopy: a new object, in the given space, for every dict and list
\* reached from a; strings and booleans are immutable and stay shared.  No
\* object of the registry is reachable by two paths, so the memo of deepcopy
\* plays no part.
RECURSIVE deepcopy(_, _, _), deepcopy_all(_, _, _)
deepcopy(h, a, space) ==
  LET o == h[a]
      b == [a EXCEPT ![1] = space]
  IN CASE o.kind = "dict" ->
            LET keys == SetToSeq(DOMAIN o.items)
                r == deepcopy_all(h, [i \in 1..Len(keys) |-> o.items[keys[i]]], space)
            IN Alloc(r.heap, b,
                     DictObj([n \in DOMAIN o.items |-> r.addrs[IndexOf(keys, n)]]))
       [] o.kind = "tool_def" ->
            LET r == deepcopy(h, o.params, space)
            IN Alloc(r.heap, b, ToolDefObj(o.name, o.description, r.addr))
       [] o.kind = "list" ->
            LET r == deepcopy_all(h, o.elems, space) IN Alloc(r.heap, b, ListObj(r.addrs))
       [] OTHER -> Alloc(h, b, o)

deepcopy_all(h, addrs, space) ==
  IF addrs = <<>> THEN [heap |-> h, addrs |-> <<>>]
  ELSE LET c == deepcopy(h, Head(addrs), space)
           r == deepcopy_all(c.heap, Tail(addrs), space)
       IN [heap |-> r.heap, addrs |-> <<c.addr>> \o r.addrs]

(* --------------------------- operations -------------------------------- *)
\* what the last operation was given and how it ended: func is the callable
\* given to register_tool or invoked by dispatch_tool, raised tells whether
\* the operation raised to its caller, result is the string dispatch_tool
\* returned, invoked counts the calls of the tool, call is what the tool did
Last(op, name, func, args, raised, exc, result, invoked, call) ==
  [op |-> op, name |-> name, func |-> func, args |-> args, raised |-> raised,
   exc |-> exc, result |-> result, invoked |-> invoked, call |-> call]

\* what the program and its caller hold on to
Roots(held) == {DESCRIPTIONS} \cup Range(held)

\* returned: the data the latest call of get_tools returned, if no
\* registration stored a tool since
NoRead == [any |-> FALSE, data |-> <<>>]
Read(data) == [any |-> TRUE, data |-> data]

Init ==
  /\ _TOOL_HOOKS = [n \in {} |-> 0]
  /\ heap = [a \in {DESCRIPTIONS} |-> DictObj([n \in {} |-> 0])]
  /\ snaps = <<>>
  /\ last = Last("init", "", 0, NoArgs, FALSE, "", "", 0, NotCalled)
  /\ nreg = 0
  /\ nmut = 0
  /\ returned = NoRead
  /\ pending = 0

\* nreg counts the registrations that stored a tool
register_tool(func) ==
  /\ LET e == register_effect(_TOOL_HOOKS, heap, func) IN
     /\ e.raised \/ nreg < MaxRegs
     /\ nreg' = IF e.raised THEN nreg ELSE nreg + 1
     /\ _TOOL_HOOKS' = e.hooks
     /\ heap' = Collect(e.heap, Roots(snaps))
     /\ last' = Last("register", func.name, func.id, NoArgs, e.raised, e.exc, "", 0, NotCalled)
     /\ returned' = IF e.raised THEN returned ELSE NoRead
  /\ UNCHANGED <<snaps, nmut, pending>>

Register == \E func \in Funcs : register_tool(func)

dispatch_tool(tool_name, tool_params) ==
  /\ LET e == dispatch_effect(_TOOL_HOOKS, tool_name, tool_params) IN
     last' = Last("dispatch", tool_name, e.callee, tool_params,
                  e.raised, e.exc, e.result, e.invoked, e.call)
  /\ UNCHANGED <<_TOOL_HOOKS, heap, snaps, nreg, nmut, returned, pending>>

Dispatch == \E tool_name \in ToolNames, tool_params \in Arguments :
              dispatch_tool(tool_name, tool_params)

\* get_tools; the caller keeps the mapping it is handed while it holds
\* fewer than MaxSnaps of them, and drops it at once otherwise
get_tools ==
  /\ LET c == deepcopy(heap, DESCRIPTIONS, Len(snaps) + 1) IN
     /\ snaps' = IF Len(snaps) < MaxSnaps THEN Append(snaps, c.addr) ELSE snaps
     /\ heap' = Collect(c.heap, Roots(snaps'))
     /\ returned' = Read(Value(c.heap, c.addr))
  /\ last' = Last("get_tools", "", 0, NoArgs, FALSE, "", "", 0, NotCalled)
  /\ UNCHANGED <<_TOOL_HOOKS, nreg, nmut, pending>>

(* --------- what a caller may do to a mapping get_tools gave it --------- *)
Mutated(name) == Last("mutate", name, 0, NoArgs, FALSE, "", "", 0, NotCalled)

Mutation(s, name) ==
  /\ nmut < MaxMuts
  /\ nmut' = nmut + 1
  /\ s \in 1..Len(snaps)
  /\ last' = Mutated(name)
  /\ UNCHANGED <<_TOOL_HOOKS, snaps, nreg, returned, pending>>

\* del tools[name]
DelKey ==
  \E s \in 1..Len(snaps) : \E name \in DOMAIN heap[snaps[s]].items :
    /\ Mutation(s, name)
    /\ heap' = Collect([heap EXCEPT ![snaps[s]].items =
                           [n \in DOMAIN @ \ {name} |-> @[n]]], Roots(snaps))

\* tools["h"] = {"name": "h", "description": "x", "params": []}
AddKey ==
  \E s \in 1..Len(snaps) :
    /\ "h" \notin DOMAIN heap[snaps[s]].items
    /\ Mutation(s, "h")
    /\ LET l == Alloc(heap, Addr(snaps[s][1], "h", 1, 0), ListObj(<<>>))
           d == Alloc(l.heap, Addr(snaps[s][1], "h", 0, 0), ToolDefObj("h", <<"x">>, l.addr))
       IN heap' = [d.heap EXCEPT ![snaps[s]].items = SetItem(@, "h", d.addr)]

\* tools[name]["description"] = "x"
EditDescription ==
  \E s \in 1..Len(snaps) : \E name \in DOMAIN heap[snaps[s]].items :
    /\ Mutation(s, name)
    /\ heap' = [heap EXCEPT ![heap[snaps[s]].items[name]].description = <<"x">>]

\* tools[name]["params"].pop()
PopParam ==
  \E s \in 1..Len(snaps) : \E name \in DOMAIN heap[snaps[s]].items :
    LET l == heap[heap[snaps[s]].items[name]].params IN
    /\ heap[l].elems # <<>>
    /\ Mutation(s, name)
    /\ heap' = Collect([heap EXCEPT ![l].elems = SubSeq(@, 1, Len(@) - 1)], Roots(snaps))

\* p = tools[name]["params"][i]; p["required"] = not p["required"]
EditParam ==
  \E s \in 1..Len(snaps) : \E name \in DOMAIN heap[snaps[s]].items :
    LET l == heap[heap[snaps[s]].items[name]].params IN
    \E i \in 1..Len(heap[l].elems) :
      /\ Mutation(s, name)
      /\ heap' = [heap EXCEPT ![heap[l].elems[i]].required = ~@]

Next ==
  \/ Register
  \/ Dispatch
  \/ get_tools
  \/ DelKey
  \/ AddKey
  \/ EditDescription
  \/ PopParam
  \/ EditParam

Spec == Init /\ [][Next]_vars

(* ------- a registration interleaved with dispatching and listing ------- *)
\* The two stores of lines 43-44 are separate steps of the registering
\* thread; other threads run dispatch_tool and get_tools between them.
\* pending is the callable whose registration has executed line 43 and not
\* yet line 44 (0: none).

\* the two stores in the other order: line 44 before line 43
register_step_descriptor_first(hooks, h, func, k) ==
  LET e == register_effect(hooks, h, func) IN
  IF k = 1 THEN [hooks |-> hooks, heap |-> e.heap]
  ELSE [hooks |-> e.hooks, heap |-> e.heap]

\* the mappings after the first k of the two stores of a registration
\* that passed its checks
register_step(hooks, h, func, k) ==
  LET e == register_effect(hooks, h, func) IN
  IF k = 1 THEN [hooks |-> e.hooks, heap |-> h]
  ELSE [hooks |-> e.hooks, heap |-> e.heap]

\* register_tool up to and including line 43, or up to its raise
register_tool_43(func) ==
  /\ pending = 0
  /\ LET e == register_effect(_TOOL_HOOKS, heap, func)
         st == register_step(_TOOL_HOOKS, heap, func, 1)
     IN IF e.raised
          THEN /\ last' = Last("register", func.name, func.id, NoArgs,
                               TRUE, e.exc, "", 0, NotCalled)
               /\ UNCHANGED <<_TOOL_HOOKS, heap, pending>>
          ELSE /\ nreg < MaxRegs
               /\ _TOOL_HOOKS' = st.hooks
               /\ heap' = Collect(st.heap, Roots(snaps))
               /\ pending' = func.id
               /\ last' = Last("line 43", func.name, func.id, NoArgs,
                               FALSE, "", "", 0, NotCalled)
  /\ UNCHANGED <<snaps, nreg, nmut, returned>>

RegisterBegin == \E func \in Funcs : register_tool_43(func)

\* line 44 and the return of register_tool
register_tool_44 ==
  /\ pending # 0
  /\ LET func == FuncById(pending)
         st == register_step(_TOOL_HOOKS, heap, func, 2)
     IN /\ _TOOL_HOOKS' = st.hooks
        /\ heap' = Collect(st.heap, Roots(snaps))
        /\ last' = Last("register", func.name, func.id, NoArgs,
                        FALSE, "", "", 0, NotCalled)
  /\ pending' = 0
  /\ nreg' = nreg + 1
  /\ returned' = NoRead
  /\ UNCHANGED <<snaps, nmut>>

E_Size == "RuntimeError: dictionary changed size during iteration"

\* get_tools overlapping line 44: deepcopy is iterating over
\* _TOOL_DESCRIPTIONS when the registering thread inserts a new key, and
\* raises; the caller gets no mapping
get_tools_raced ==
  /\ pending # 0
  /\ DOMAIN _TOOL_DESCRIPTIONS # {}
  /\ FuncById(pending).name \notin DOMAIN _TOOL_DESCRIPTIONS
  /\ LET st == register_step(_TOOL_HOOKS, heap, FuncById(pending), 2)
     IN /\ _TOOL_HOOKS' = st.hooks
        /\ heap' = Collect(st.heap, Roots(snaps))
  /\ last' = Last("get_tools", "", 0, NoArgs, TRUE, E_Size, "", 0, NotCalled)
  /\ pending' = 0
  /\ nreg' = nreg + 1
  /\ returned' = NoRead
  /\ UNCHANGED <<snaps, nmut>>

NextInterleaved ==
  \/ RegisterBegin
  \/ register_tool_44
  \/ Dispatch
  \/ get_tools
  \/ get_tools_raced

SpecInterleaved == Init /\ [][NextInterleaved]_vars

(* ------------------------------ claims --------------------------------- *)
\* the descriptors of the registry as plain data
Registry == Value(heap, DESCRIPTIONS)

Held(s) == Value(heap, snaps[s])

\* C1: every dispatch ends by returning a string to its caller and never by
\* raising, whatever the stored callable does.  (Stated as claimed; a tool
\* that returns an object whose __str__ raises makes str(ret) of line 56,
\* which is outside the try, raise.)
C1_DispatchNeverRaises == last.op = "dispatch" => ~last.raised

\* C2: a registration that raises leaves both mappings of the registry, and
\* every object they refer to, exactly as they were.
C2_FailedRegistrationInsertsNothing ==
  [][(last'.op = "register" /\ last'.raised) =>
       /\ _TOOL_HOOKS' = _TOOL_HOOKS
       /\ heap'[DESCRIPTIONS] = heap[DESCRIPTIONS]
       /\ Value(heap', DESCRIPTIONS) = Value(heap, DESCRIPTIONS)]_vars

\* a registration rejected at its second parameter, after a valid first one,
\* while an entry of the same name is registered
C2_Witness ==
  /\ last.op = "register" /\ last.raised /\ last.func = 5
  /\ last.name \in DOMAIN _TOOL_HOOKS
  /\ last.name \in DOMAIN _TOOL_DESCRIPTIONS

\* C3: registering a callable whose documentation text is absent, or empty
\* once trimmed, raises, and so every descriptor of the registry has a
\* non-empty description.  (Stated as claimed; a text of blanks is accepted.)
C3_DescriptionNeverEmpty ==
  /\ (last.op = "register" /\ ~last.raised) =>
       LET doc == FuncById(last.func).doc
       IN doc.present /\ \E i \in 1..Len(doc.text) : doc.text[i] # " "
  /\ \A n \in DOMAIN Registry : Registry[n].description # <<>>

\* C4: when the invoked tool raises, dispatch returns (does not raise) a
\* non-empty string, which is the trace of that failure, and the registry is
\* unchanged.
C4_FailureContained ==
  [][(last'.op = "dispatch" /\ last'.invoked = 1 /\ last'.call.raised) =>
       /\ ~last'.raised
       /\ Len(last'.result) > 0
       /\ last'.result = "Traceback (most recent call last): " \o last'.call.exc
       /\ _TOOL_HOOKS' = _TOOL_HOOKS
       /\ heap' = heap]_vars

\* the tool rejected its input itself, and dispatch returned the trace
C4_Witness ==
  /\ last.op = "dispatch" /\ last.call.raised /\ last.call.exc = E_Invalid
  /\ ~last.raised /\ last.result # ""

\* C5: dispatch of a name without entry returns the tool-not-found message,
\* calls nothing and leaves both mappings unchanged.
C5_UnknownName ==
  [][(last'.op = "dispatch" /\ last'.name \notin DOMAIN _TOOL_HOOKS) =>
       /\ ~last'.raised
       /\ last'.result =
            "Tool " \o last'.name \o " not found. Please use a provided tool."
       /\ last'.invoked = 0
       /\ _TOOL_HOOKS' = _TOOL_HOOKS
       /\ heap' = heap]_vars

\* an unknown name dispatched while other tools are registered
C5_Witness ==
  /\ last.op = "dispatch" /\ last.name = "nonexistent_tool"
  /\ DOMAIN _TOOL_HOOKS = Names
  /\ last.result = "Tool nonexistent_tool not found. Please use a provided tool."

C7_CatalogIsolation ==
  [][last'.op = "mutate" =>
       /\ Value(heap', DESCRIPTIONS) = Value(heap, DESCRIPTIONS)
       /\ heap'[DESCRIPTIONS] = heap[DESCRIPTIONS]
       /\ _TOOL_HOOKS' = _TOOL_HOOKS]_vars

\* the caller changed the mapping it holds, which now differs from the registry
C7_Witness ==
  /\ last.op = "mutate" /\ Len(snaps) > 0
  /\ DOMAIN Registry # {}
  /\ Held(1) # Registry

\* C8: the mapping get_tools returns equals the descriptors of the registry
\* at the call, and no later registration changes it.
C8_SnapshotFrozen ==
  [][/\ (last'.op = "get_tools" /\ Len(snaps') > Len(snaps)) =>
          Value(heap', snaps'[Len(snaps')]) = Value(heap, DESCRIPTIONS)
     /\ last'.op = "register" =>
          \A s \in 1..Len(snaps) : Value(heap', snaps[s]) = Value(heap, snaps[s])]_vars

\* a registration overwrote a name that an untouched snapshot shows
C8_Witness ==
  /\ last.op = "register" /\ ~last.raised /\ nmut = 0 /\ Len(snaps) > 0
  /\ last.name \in DOMAIN Held(1)
  /\ Held(1)[last.name] # Registry[last.name]

\* C9: a successful registration under a name that is already registered
\* replaces both entries by the new callable and its descriptor, the number
\* of entries stays, and a dispatch of a name invokes the callable the hooks
\* hold for it.
C9_LastRegistrationWins ==
  [][/\ (last'.op = "register" /\ ~last'.raised /\ last'.name \in DOMAIN _TOOL_HOOKS) =>
          /\ _TOOL_HOOKS'[last'.name] = last'.func
          /\ Value(heap', DESCRIPTIONS)[last'.name] =
               tool_def_of(FuncById(last'.func)).value
          /\ DOMAIN _TOOL_HOOKS' = DOMAIN _TOOL_HOOKS
          /\ DOMAIN heap'[DESCRIPTIONS].items = DOMAIN heap[DESCRIPTIONS].items
     /\ (last'.op = "dispatch" /\ last'.invoked = 1) =>
          last'.func = _TOOL_HOOKS[last'.name]]_vars

\* two registrations under "f", the second one (of callable 2) made while the
\* first descriptor was in place, then a dispatch that invoked callable 2
C9_Witness ==
  /\ nreg = 2 /\ DOMAIN _TOOL_HOOKS = {"f"} /\ _TOOL_HOOKS["f"] = 2
  /\ Registry["f"].params[1].type = "str"
  /\ last.op = "dispatch" /\ last.func = 2

\* C10: dispatch and get_tools leave both mappings unchanged, and no step
\* ever removes a registered name from either mapping.
C10_OnlyRegistrationWrites ==
  [][/\ last'.op \in {"dispatch", "get_tools"} =>
          /\ _TOOL_HOOKS' = _TOOL_HOOKS
          /\ heap'[DESCRIPTIONS] = heap[DESCRIPTIONS]
          /\ Value(heap', DESCRIPTIONS) = Value(heap, DESCRIPTIONS)
     /\ DOMAIN _TOOL_HOOKS \subseteq DOMAIN _TOOL_HOOKS'
     /\ DOMAIN heap[DESCRIPTIONS].items \subseteq DOMAIN heap'[DESCRIPTIONS].items]_vars

\* two names registered, then a dispatch that raised
C10_Witness ==
  /\ DOMAIN _TOOL_HOOKS = Names /\ DOMAIN _TOOL_DESCRIPTIONS = Names
  /\ last.op = "dispatch" /\ last.raised

\* C11: the params of every registered descriptor have as many entries as
\* the registered callable declares parameters, and the i-th entry carries
\* the name of the i-th declared parameter.
C11_ParamsFollowDeclaration ==
  \A n \in DOMAIN _TOOL_DESCRIPTIONS :
    LET declared == FuncById(_TOOL_HOOKS[n]).params
        params == Registry[n].params
    IN /\ Len(params) = Len(declared)
       /\ \A i \in 1..Len(declared) : params[i].name = declared[i].name

\* a tool of two parameters is registered, x before y
C11_Witness ==
  /\ "g" \in DOMAIN _TOOL_DESCRIPTIONS
  /\ Len(FuncById(_TOOL_HOOKS["g"]).params) = 2
  /\ Registry["g"].params[1].name = "x"
  /\ Registry["g"].params[2].name = "y"

\* C12: every parameter of every registered descriptor has a non-empty
\* description and a boolean required flag.  (Stated as claimed; the
\* description is only tested to be a string, so '' is stored.)
C12_ParamSpecsPopulated ==
  \A n \in DOMAIN _TOOL_DESCRIPTIONS :
    \A i \in 1..Len(Registry[n].params) :
      /\ Registry[n].params[i].name # ""
      /\ Registry[n].params[i].type # ""
      /\ Registry[n].params[i].description # ""
      /\ Registry[n].params[i].required \in BOOLEAN

\* C16: a dispatch of a registered name calls the callable stored under
\* that name exactly once, also when the call fails, with the argument
\* mapping it was given, whatever the parameters the callable declares; a
\* dispatch of a name that is not registered calls nothing.
C16_InvokedOnceAsGiven ==
  last.op = "dispatch" =>
    IF last.name \in DOMAIN _TOOL_HOOKS
      THEN /\ last.invoked = 1
           /\ last.func = _TOOL_HOOKS[last.name]
           /\ last.call.args = last.args
      ELSE /\ last.invoked = 0
           /\ last.call = NotCalled

\* a call with a keyword the tool does not declare was made all the same,
\* once, and failed in the call
C16_Witness ==
  /\ last.op = "dispatch" /\ last.name \in DOMAIN _TOOL_HOOKS
  /\ DOMAIN last.args # ParamNames(FuncById(_TOOL_HOOKS[last.name]))
  /\ last.invoked = 1 /\ last.call.raised /\ last.call.exc = E_Binding
  /\ last.call.args = last.args

\* C17: the mapping of names to callables and the mapping of names to
\* descriptors have the same keys, and the descriptor under a name carries
\* that name.
C17_MappingsAgree ==
  /\ DOMAIN _TOOL_HOOKS = DOMAIN _TOOL_DESCRIPTIONS
  /\ \A n \in DOMAIN _TOOL_DESCRIPTIONS : Registry[n].name = n

\* two names are registered and a registration has just been refused
C17_Witness ==
  /\ DOMAIN _TOOL_HOOKS = Names
  /\ Registry["f"].name = "f" /\ Registry["g"].name = "g"
  /\ last.op = "register" /\ last.raised

\* the error kind a failure of register_tool stands for
Kind(exc) ==
  CASE exc = E_Missing -> "MissingAnnotation"
    [] exc \in {E_NotAnnotated, E_Unpack} -> "MalformedAnnotation"
    [] exc = E_Description -> "InvalidDescription"
    [] exc = E_Required -> "InvalidRequiredFlag"
    [] OTHER -> "other"

\* the defect of one declared parameter, the tests taken in the order
\* annotation present, annotation of the shape (type, description,
\* required), description a string, required a boolean
Defect(param) ==
  LET annotation == param.annotation IN
  IF annotation.kind = "empty" THEN "MissingAnnotation"
  ELSE IF annotation.kind # "Annotated" \/ Len(annotation.metadata) # 2
    THEN "MalformedAnnotation"
  ELSE IF annotation.metadata[1].t # "str" THEN "InvalidDescription"
  ELSE IF annotation.metadata[2].t # "bool" THEN "InvalidRequiredFlag"
  ELSE "none"

\* the defect of the first declared parameter that has one
RECURSIVE FirstDefect(_)
FirstDefect(python_params) ==
  IF python_params = <<>> THEN "none"
  ELSE IF Defect(Head(python_params)) # "none" THEN Defect(Head(python_params))
  ELSE FirstDefect(Tail(python_params))

\* C15: a registration of a documented callable with a defective parameter
\* fails with the error kind of the defect of the first such parameter in
\* declaration order, the defects of one parameter taken in the order
\* missing annotation, malformed annotation, description, required flag.
\* (Stated as claimed; the type name is read before the description is
\* tested, so a type without __name__ fails first, with another error.)
C15_FirstDefectReported ==
  (/\ last.op = "register"
   /\ FuncById(last.func).doc.present
   /\ FirstDefect(FuncById(last.func).params) # "none") =>
     /\ last.raised
     /\ Kind(last.exc) = FirstDefect(FuncById(last.func).params)

\* the objects reached from a dict of descriptors
Reach(h, a) == DOMAIN Collect(h, {a})

\* C13: the mapping get_tools returns has exactly the registered names as
\* keys, each mapped to data equal to the stored descriptor; a descriptor of
\* the result has the fields name, description and params, a parameter of it
\* the fields name, description, type and required, and none holds a
\* callable; the mapping the caller keeps is made of objects of its own,
\* none of them an object of the registry.
C13_CatalogIsACopy ==
  [][last'.op = "get_tools" =>
       /\ returned'.any
       /\ DOMAIN returned'.data = DOMAIN _TOOL_HOOKS
       /\ \A n \in DOMAIN returned'.data :
            /\ returned'.data[n] = Value(heap, _TOOL_DESCRIPTIONS[n])
            /\ DOMAIN returned'.data[n] = {"name", "description", "params"}
            /\ \A i \in DOMAIN returned'.data[n].params :
                 DOMAIN returned'.data[n].params[i] =
                   {"name", "description", "type", "required"}
       /\ Len(snaps') > Len(snaps) =>
            /\ Value(heap', snaps'[Len(snaps')]) = returned'.data
            /\ Reach(heap', snaps'[Len(snaps')]) \cap Reach(heap', DESCRIPTIONS) = {}]_vars

\* get_tools has just returned both registered tools to a caller who keeps them
C13_Witness ==
  /\ last.op = "get_tools" /\ Len(snaps) > 0
  /\ DOMAIN _TOOL_HOOKS = Names
  /\ returned.any /\ DOMAIN returned.data = Names
  /\ Held(Len(snaps)) = Registry
  /\ Len(Held(Len(snaps))["g"].params) = 2

\* C14: a call of get_tools returns the data the call before it returned,
\* unless a registration stored a tool between the two, whatever was
\* dispatched and whatever the caller did to the mappings it holds.
C14_RepeatableRead ==
  [][(last'.op = "get_tools" /\ returned.any) => returned'.data = returned.data]_vars

\* a second call of get_tools, after the caller changed the mapping the
\* first call gave it, with a tool registered
C14_Witness ==
  /\ last.op = "get_tools" /\ nmut > 0 /\ Len(snaps) > 0
  /\ returned.any /\ returned.data = Registry /\ DOMAIN Registry # {}
  /\ Held(1) # Registry

\* C18: while a registration is between its two stores, and at every other
\* moment, every name of the descriptor mapping is a name of the callable
\* mapping; and a dispatch of a name that a mapping returned by get_tools
\* shows calls a tool, it does not answer that the tool was not found.
C18_ListedMeansDispatchable ==
  /\ DOMAIN _TOOL_DESCRIPTIONS \subseteq DOMAIN _TOOL_HOOKS
  /\ (/\ last.op = "dispatch"
      /\ \E s \in 1..Len(snaps) : last.name \in DOMAIN Held(s)) =>
       /\ last.invoked = 1
       /\ last.result # NotFound(last.name)

\* a registration of a new name is between its two stores, a listing made
\* meanwhile shows the older tool only, and that tool was just dispatched
C18_Witness ==
  /\ pending # 0
  /\ FuncById(pending).name \in DOMAIN _TOOL_HOOKS \ DOMAIN _TOOL_DESCRIPTIONS
  /\ Len(snaps) > 0 /\ DOMAIN Held(1) = DOMAIN _TOOL_DESCRIPTIONS
  /\ last.op = "dispatch" /\ last.name \in DOMAIN Held(1) /\ last.invoked = 1

====
